---------------------------- MODULE Spec2Model ----------------------------
(***************************************************************************)
(* Model of src/proxy/common.ts: setupOutgoing (the outgoing request       *)
(* builder) and rewriteCookieProperty (the cookie rewriter).               *)
(*                                                                         *)
(* Strings are sequences of one-character strings, so that searching,      *)
(* joining, collapsing and encoding are computed character by character.   *)
(* A JavaScript value whose type the code inspects (undefined, string,     *)
(* number, boolean, object) is a record tagged with its type.              *)
(***************************************************************************)
EXTENDS Integers, Sequences, FiniteSets

VARIABLES options, reqs, outgoing, cookie

vars == <<options, reqs, outgoing, cookie>>

----------------------------------------------------------------------------
(* Bounds of the model.                                                    *)

\* Number of inbound requests that share one configuration.
NumReqs == 2

\* Longest request URL drawn from the URL alphabet.
MaxUrlLen == 3

\* Most attributes that follow the name=value pair of a Set-Cookie header.
MaxAttrs == 2

\* Most comma-separated tokens of a Connection header.
MaxTokens == 2

\* Most pairs of a request's query, and of a target's query parameters.
MaxPairs == 2

ReqIds == 1..NumReqs

----------------------------------------------------------------------------
(* JavaScript values.                                                      *)

Undef == [t |-> "undefined"]
Null == [t |-> "null"]
Str(s) == [t |-> "string", s |-> s]
Num(n) == [t |-> "number", n |-> n]
Bool(b) == [t |-> "boolean", b |-> b]
Obj(id) == [t |-> "object", id |-> id]

\* ToBoolean: what `if (v)`, `!v` and `a || b` test.
Truthy(v) ==
    CASE v.t = "undefined" -> FALSE
      [] v.t = "null" -> FALSE
      [] v.t = "string" -> v.s # <<>>
      [] v.t = "number" -> v.n # 0
      [] v.t = "boolean" -> v.b
      [] OTHER -> TRUE

\* a || b
OrElse(a, b) == IF Truthy(a) THEN a ELSE b

Digit(d) ==
    CASE d = 0 -> "0" [] d = 1 -> "1" [] d = 2 -> "2" [] d = 3 -> "3"
      [] d = 4 -> "4" [] d = 5 -> "5" [] d = 6 -> "6" [] d = 7 -> "7"
      [] d = 8 -> "8" [] d = 9 -> "9"

DigitVal(c) ==
    CASE c = "0" -> 0 [] c = "1" -> 1 [] c = "2" -> 2 [] c = "3" -> 3
      [] c = "4" -> 4 [] c = "5" -> 5 [] c = "6" -> 6 [] c = "7" -> 7
      [] c = "8" -> 8 [] c = "9" -> 9 [] OTHER -> -1

RECURSIVE NatToStr(_)
NatToStr(n) == IF n < 10 THEN <<Digit(n)>> ELSE NatToStr(n \div 10) \o <<Digit(n % 10)>>

\* The text of a value inside a string concatenation (a + ':' + b).
JsString(v) ==
    CASE v.t = "string" -> v.s
      [] v.t = "number" -> NatToStr(v.n)
      [] v.t = "undefined" -> <<"u", "n", "d", "e", "f", "i", "n", "e", "d">>
      [] v.t = "null" -> <<"n", "u", "l", "l">>
      [] v.t = "boolean" -> IF v.b THEN <<"t", "r", "u", "e">> ELSE <<"f", "a", "l", "s", "e">>
      [] v.t = "function" -> <<"f", "u", "n", "c", "t", "i", "o", "n", " ", "O", "b", "j", "e", "c", "t",
                               "(", ")", " ", "{", " ", "[", "n", "a", "t", "i", "v", "e", " ",
                               "c", "o", "d", "e", "]", " ", "}">>
      [] OTHER -> <<"[", "o", "b", "j", "e", "c", "t", " ", "O", "b", "j", "e", "c", "t", "]">>

RECURSIVE StrToNat(_)
StrToNat(s) == IF s = <<>> THEN 0 ELSE 10 * StrToNat(SubSeq(s, 1, Len(s) - 1)) + DigitVal(s[Len(s)])

IsDigits(s) == \A i \in 1..Len(s) : DigitVal(s[i]) >= 0

\* Unary plus (+v) on the values a port takes; -1 stands for NaN.
ToNumber(v) ==
    CASE v.t = "number" -> v.n
      [] v.t = "string" -> IF IsDigits(v.s) THEN StrToNat(v.s) ELSE -1
      [] v.t = "null" -> 0
      [] v.t = "boolean" -> IF v.b THEN 1 ELSE 0
      [] OTHER -> -1

----------------------------------------------------------------------------
(* Strings.                                                                *)

IsPrefix(p, s) == Len(p) <= Len(s) /\ SubSeq(s, 1, Len(p)) = p

\* Whether p occurs in s at position i.
OccursAt(p, s, i) == i + Len(p) - 1 <= Len(s) /\ SubSeq(s, i, i + Len(p) - 1) = p

\* String.prototype.indexOf, 1-based; 0 when p does not occur.
IndexOf(s, p) ==
    IF \E i \in 1..Len(s) : OccursAt(p, s, i)
    THEN CHOOSE i \in 1..Len(s) : OccursAt(p, s, i) /\ \A j \in 1..(i - 1) : ~OccursAt(p, s, j)
    ELSE 0

Lower(c) ==
    CASE c = "A" -> "a" [] c = "D" -> "d" [] c = "E" -> "e" [] c = "G" -> "g"
      [] c = "H" -> "h" [] c = "I" -> "i" [] c = "M" -> "m" [] c = "N" -> "n"
      [] c = "O" -> "o" [] c = "P" -> "p" [] c = "R" -> "r" [] c = "S" -> "s"
      [] c = "T" -> "t" [] c = "U" -> "u" [] c = "W" -> "w" [] c = "X" -> "x"
      [] OTHER -> c

LowerStr(s) == [i \in 1..Len(s) |-> Lower(s[i])]

\* \s of a regular expression, on the characters the model draws.
IsSpace(c) == c = " " \/ c = "\t"

Drop(s, n) == SubSeq(s, n + 1, Len(s))

\* [a, b].filter(Boolean).join('/') on two strings.
FilterJoin(a, b) ==
    IF a = <<>> THEN b
    ELSE IF b = <<>> THEN a
    ELSE a \o <<"/">> \o b

\* s.replace(/\/+/g, '/'): every run of '/' becomes one '/'.
RECURSIVE CollapseSlashes(_)
CollapseSlashes(s) ==
    IF Len(s) < 2 THEN s
    ELSE IF s[1] = "/" /\ s[2] = "/" THEN CollapseSlashes(Drop(s, 1))
    ELSE <<s[1]>> \o CollapseSlashes(Drop(s, 1))

\* Leading characters of s that are all c, removed.
RECURSIVE SkipAll(_, _)
SkipAll(s, c) == IF s # <<>> /\ s[1] = c THEN SkipAll(Drop(s, 1), c) ELSE s

\* The part of s before the first c (all of s when c does not occur).
Before(s, c) == IF IndexOf(s, <<c>>) = 0 THEN s ELSE SubSeq(s, 1, IndexOf(s, <<c>>) - 1)

\* The part of s after the first c (empty when c does not occur).
After(s, c) == IF IndexOf(s, <<c>>) = 0 THEN <<>> ELSE Drop(s, IndexOf(s, <<c>>))

RECURSIVE Split(_, _)
Split(s, c) ==
    IF IndexOf(s, <<c>>) = 0 THEN <<s>>
    ELSE <<Before(s, c)>> \o Split(After(s, c), c)

RECURSIVE JoinWith(_, _)
JoinWith(parts, sep) ==
    IF parts = <<>> THEN <<>>
    ELSE IF Len(parts) = 1 THEN parts[1]
    ELSE parts[1] \o sep \o JoinWith(Drop(parts, 1), sep)

----------------------------------------------------------------------------
(* new URL(input, 'http://example.com'): the WHATWG URL parser on the      *)
(* inputs the model draws (letters, digits, '/', '?', '=', '&', and an     *)
(* optional leading "http:"; no '#', '\', '.', '%', '@' or white space).   *)

kHttpColon == <<"h", "t", "t", "p", ":">>

\* An input of the base's own scheme continues as a relative reference
\* (scheme state -> special relative or authority state).
AfterScheme(input) == IF IsPrefix(kHttpColon, input) THEN Drop(input, Len(kHttpColon)) ELSE input

\* "//..." enters the authority; every further '/' is skipped, and the host
\* runs to the next '/': an empty host fails the parse.
AuthorityRest(p) == SkipAll(p, "/")

UrlParses(input) ==
    LET p == Before(AfterScheme(input), "?")
    IN  IsPrefix(<<"/", "/">>, p) => Before(AuthorityRest(p), "/") # <<>>

\* reqUrl.pathname
UrlPathname(input) ==
    LET p == Before(AfterScheme(input), "?")
    IN  IF p = <<>> THEN <<"/">>
        ELSE IF IsPrefix(<<"/", "/">>, p)
             THEN IF IndexOf(AuthorityRest(p), <<"/">>) = 0 THEN <<"/">>
                  ELSE Drop(AuthorityRest(p), IndexOf(AuthorityRest(p), <<"/">>) - 1)
        ELSE IF p[1] = "/" THEN p
        ELSE <<"/">> \o p

\* The URL's query: everything after the first '?'.
UrlQuery(input) == After(AfterScheme(input), "?")

\* The search getter: '' for an empty query, else '?' and the query.
Search(query) == IF query = <<>> THEN <<>> ELSE <<"?">> \o query

\* application/x-www-form-urlencoded decoding of one name or value: '+' is
\* a space (there is no '%' among the inputs).
FormDecode(s) == [i \in 1..Len(s) |-> IF s[i] = "+" THEN " " ELSE s[i]]

\* application/x-www-form-urlencoded parsing: the query's pairs, in order.
RECURSIVE PairsOf(_)
PairsOf(parts) ==
    IF parts = <<>> THEN <<>>
    ELSE IF parts[1] = <<>> THEN PairsOf(Drop(parts, 1))
    ELSE <<<<FormDecode(Before(parts[1], "=")), FormDecode(After(parts[1], "="))>>>>
         \o PairsOf(Drop(parts, 1))

ParseQuery(query) == PairsOf(Split(query, "&"))

\* application/x-www-form-urlencoded byte serialisation of one character.
FormEncodeChar(c) ==
    CASE c = " " -> <<"+">>
      [] c = "/" -> <<"%", "2", "F">>
      [] c = "?" -> <<"%", "3", "F">>
      [] c = "=" -> <<"%", "3", "D">>
      [] c = "&" -> <<"%", "2", "6">>
      [] c = ":" -> <<"%", "3", "A">>
      [] c = "+" -> <<"%", "2", "B">>
      [] OTHER -> <<c>>

RECURSIVE FormEncode(_)
FormEncode(s) == IF s = <<>> THEN <<>> ELSE FormEncodeChar(s[1]) \o FormEncode(Drop(s, 1))

RECURSIVE SerializePairs(_)
SerializePairs(list) ==
    IF list = <<>> THEN <<>>
    ELSE FormEncode(list[1][1]) \o <<"=">> \o FormEncode(list[1][2])
         \o (IF Len(list) = 1 THEN <<>> ELSE <<"&">> \o SerializePairs(Drop(list, 1)))

\* URLSearchParams.set(name, value): the first pair of that name takes the
\* value and the later ones are removed; a new name is appended.
ParamsSet(list, name, value) ==
    IF \E i \in 1..Len(list) : list[i][1] = name
    THEN LET first == CHOOSE i \in 1..Len(list) :
                          list[i][1] = name /\ \A j \in 1..(i - 1) : list[j][1] # name
             marked == [i \in 1..Len(list) |->
                            IF i = first THEN <<name, value, TRUE>>
                            ELSE <<list[i][1], list[i][2], list[i][1] # name>>]
             kept == SelectSeq(marked, LAMBDA e : e[3])
         IN  [i \in 1..Len(kept) |-> <<kept[i][1], kept[i][2]>>]
    ELSE list \o <<<<name, value>>>>

\* for (const entry of target.searchParams.entries())
\*     reqUrl.searchParams.set(entry[0], entry[1])
RECURSIVE SetAll(_, _)
SetAll(list, entries) ==
    IF entries = <<>> THEN list
    ELSE SetAll(ParamsSet(list, entries[1][1], entries[1][2]), Drop(entries, 1))

\* The loop run the other way: the request's pairs set on the target's.
MergedSearchTargetFirst(query, entries) ==
    IF entries = <<>> THEN Search(query)
    ELSE Search(SerializePairs(SetAll(entries, ParseQuery(query))))

\* reqUrl.search after the loop: a set() rewrites the URL's query with the
\* serialised list; with no entry to set, the query stays as it was parsed.
MergedSearch(query, entries) ==
    IF entries = <<>> THEN Search(query)
    ELSE Search(SerializePairs(SetAll(ParseQuery(query), entries)))

----------------------------------------------------------------------------
(* Regular expressions of common.ts.                                       *)

kHttps == <<"h", "t", "t", "p", "s">>
kWss == <<"w", "s", "s">>
kUpgrade == <<"u", "p", "g", "r", "a", "d", "e">>
kKeepAlive == <<"k", "e", "e", "p", "-", "a", "l", "i", "v", "e">>
kClose == <<"c", "l", "o", "s", "e">>

\* isSSL with the i flag: /^https|wss/i.
isSSLIgnoreCase(s) == IsPrefix(kHttps, LowerStr(s)) \/ IndexOf(LowerStr(s), kWss) # 0

\* isSSL = /^https|wss/ : "https" at the start, or "wss" anywhere.
isSSL(s) == IsPrefix(kHttps, s) \/ IndexOf(s, kWss) # 0

AllSpace(s, from, to) == \A i \in from..to : IsSpace(s[i])

\* upgradeHeader without the i flag.
upgradeHeaderCaseSensitive(s) ==
    \E start \in 1..(Len(s) + 1) :
        /\ start = 1 \/ s[start - 1] = ","
        /\ \E w \in start..(Len(s) + 1) :
              /\ AllSpace(s, start, w - 1)
              /\ OccursAt(kUpgrade, s, w)
              /\ \E e \in (w + Len(kUpgrade))..(Len(s) + 1) :
                    /\ AllSpace(s, w + Len(kUpgrade), e - 1)
                    /\ e = Len(s) + 1 \/ s[e] = ","

\* upgradeHeader = /(^|,)\s*upgrade\s*($|,)/i
upgradeHeader(s) ==
    \E start \in 1..(Len(s) + 1) :
        /\ start = 1 \/ s[start - 1] = ","
        /\ \E w \in start..(Len(s) + 1) :
              /\ AllSpace(s, start, w - 1)
              /\ OccursAt(kUpgrade, LowerStr(s), w)
              /\ \E e \in (w + Len(kUpgrade))..(Len(s) + 1) :
                    /\ AllSpace(s, w + Len(kUpgrade), e - 1)
                    /\ e = Len(s) + 1 \/ s[e] = ","

----------------------------------------------------------------------------
(* required(port, protocol) of the requires-port package, which common.ts  *)
(* imports: whether the port has to be written out for the protocol.       *)

kHttp == <<"h", "t", "t", "p">>
kWs == <<"w", "s">>
kFtp == <<"f", "t", "p">>
kGopher == <<"g", "o", "p", "h", "e", "r">>
kFile == <<"f", "i", "l", "e">>

\* protocol.split(':')[0] reads a property of protocol: a TypeError unless
\* protocol is a string.
RequiredThrows(protocol) == protocol.t # "string"

required(port, protocol) ==
    LET scheme == Before(protocol.s, ":")
        n == ToNumber(port)
    IN  IF n <= 0 THEN FALSE
        ELSE CASE scheme = kHttp \/ scheme = kWs -> n # 80
               [] scheme = kHttps \/ scheme = kWss -> n # 443
               [] scheme = kFtp -> n # 21
               [] scheme = kGopher -> n # 70
               [] scheme = kFile -> FALSE
               [] OTHER -> TRUE

----------------------------------------------------------------------------
(* setupOutgoing.                                                          *)

kHttpsPort == 443
kHttpPort == 80

\* A URLSearchParams holding the pairs of list, in order.
Params(list) == [t |-> "params", list |-> list]

\* A target object (a URL, or a plain object with some of its fields).
Target(protocol, host, port, pathname, path, searchParams) ==
    [t |-> "object", protocol |-> protocol, host |-> host, port |-> port,
     pathname |-> pathname, path |-> path, searchParams |-> searchParams]

\* A headers mapping: the two keys setupOutgoing reads or writes.
Headers(host, connection) == [t |-> "object", host |-> host, connection |-> connection]

\* The base object a caller passes as `outgoing`: {}.
EmptyOutgoing ==
    [state |-> "pending", port |-> Undef, host |-> Undef, method |-> Undef,
     headers |-> Undef, agent |-> Undef, rejectUnauthorized |-> Undef,
     path |-> Undef]

\* options[forward || 'target']
ForwardKey(forward) == IF Truthy(forward) THEN "forward" ELSE "target"

SelectTarget(opts, forward) ==
    IF ForwardKey(forward) = "forward" THEN opts.forward ELSE opts.target

\* Lines 38-41 without the delete: the legacy path stays on the target.
ResolveTargetKeepsPath(target) ==
    IF target.t # "object" THEN target
    ELSE LET t1 == IF ~Truthy(target.searchParams)
                   THEN [target EXCEPT !.searchParams = Params(<<>>)]
                   ELSE target
         IN  IF Truthy(t1.path) THEN [t1 EXCEPT !.pathname = t1.path] ELSE t1

\* Lines 33-42: the target object gets a searchParams when it has none, and
\* a legacy path becomes its pathname. A target that is not an object is
\* left alone (typeof null is 'object': reading null.searchParams throws).
ResolveTarget(target) ==
    IF target.t # "object" THEN target
    ELSE LET t1 == IF ~Truthy(target.searchParams)
                   THEN [target EXCEPT !.searchParams = Params(<<>>)]
                   ELSE target
         IN  IF Truthy(t1.path)
             THEN [t1 EXCEPT !.pathname = t1.path, !.path = Undef]
             ELSE t1

\* Object.assign({}, req.headers), then Object.assign(.., options.headers).
AssignKey(base, over) == IF over.t = "undefined" THEN base ELSE over

MergeHeaders(reqHeaders, optHeaders) ==
    IF Truthy(optHeaders)
    THEN Headers(AssignKey(reqHeaders.host, optHeaders.host),
                 AssignKey(reqHeaders.connection, optHeaders.connection))
    ELSE reqHeaders

\* Lines 78-83.
ConnectionHeader(agent, connection) ==
    IF ~Truthy(agent)
    THEN IF connection.t # "string" \/ ~upgradeHeader(connection.s)
         THEN Str(kClose)
         ELSE connection
    ELSE connection

\* Line 46.
OutgoingPort(target) ==
    OrElse(target.port,
           IF isSSL(JsString(target.protocol)) THEN Num(kHttpsPort) ELSE Num(kHttpPort))

\* Line 97 without its test of prependPath.
TargetPathAlways(opts, target) ==
    IF Truthy(target) THEN JsString(OrElse(target.pathname, Str(<<>>))) ELSE <<>>

\* Line 97.
TargetPath(opts, target) ==
    IF Truthy(target) /\ opts.prependPath # Bool(FALSE)
    THEN JsString(OrElse(target.pathname, Str(<<>>)))
    ELSE <<>>

\* Lines 113-120 without line 120: ignorePath is not looked at.
OutgoingPathKept(opts, url) == IF ~Truthy(opts.toProxy) THEN UrlPathname(url) ELSE url

\* Lines 113-120.
OutgoingPath(opts, url) ==
    IF Truthy(opts.ignorePath) THEN <<>>
    ELSE IF ~Truthy(opts.toProxy) THEN UrlPathname(url)
    ELSE url

\* Line 122 without the replace.
ComposePathNoCollapse(targetPath, outgoingPath, params) ==
    FilterJoin(targetPath, outgoingPath) \o params

\* Line 122.
ComposePath(targetPath, outgoingPath, params) ==
    CollapseSlashes(FilterJoin(targetPath, outgoingPath)) \o params

\* function hasPort(host): host.indexOf(':') reads a property of host, a
\* TypeError when host?.toString() is undefined.
HasPortThrows(host) == host.t \in {"undefined", "null"}

\* hasPort without its test: no host is taken to carry a port.
hasPortNever(host) == FALSE

hasPort(host) == IndexOf(JsString(host), <<":">>) # 0

\* Line 125.
HostHeader(port, protocol, host) ==
    IF required(port, protocol) /\ ~hasPort(host)
    THEN Str(JsString(host) \o <<":">> \o JsString(port))
    ELSE host

\* Whether line 125 throws: required is evaluated first, and hasPort only
\* when required returned true.
HostHeaderThrows(port, protocol, host) ==
    \/ RequiredThrows(protocol)
    \/ required(port, protocol) /\ HasPortThrows(host)

\* The whole call: the descriptor as the call leaves it (state "returned",
\* or "thrown" with the fields assigned before the fault), and the target
\* object as the call leaves it.
setupOutgoing(out, opts, req) ==
    LET selected == SelectTarget(opts, req.forward)
        target == ResolveTarget(selected)
    IN  IF selected.t \in {"undefined", "null"}
        THEN [out |-> [out EXCEPT !.state = "thrown"], target |-> selected]
        ELSE
        LET sslEnabled == isSSL(JsString(target.protocol))
            port == OutgoingPort(target)
            agent == OrElse(opts.agent, Bool(FALSE))
            merged == MergeHeaders(req.headers, opts.headers)
            headers == [merged EXCEPT !.connection = ConnectionHeader(agent, merged.connection)]
            o1 == [out EXCEPT !.port = port,
                              !.host = target.host,
                              !.method = OrElse(opts.method, req.method),
                              !.headers = headers,
                              !.rejectUnauthorized =
                                  IF sslEnabled
                                  THEN (IF opts.secure.t = "undefined" THEN Bool(TRUE) ELSE opts.secure)
                                  ELSE out.rejectUnauthorized,
                              !.agent = agent]
        IN  IF ~UrlParses(req.url)
            THEN [out |-> [o1 EXCEPT !.state = "thrown"], target |-> target]
            ELSE
            LET params == MergedSearch(UrlQuery(req.url), target.searchParams.list)
                o2 == [o1 EXCEPT !.path = Str(ComposePath(TargetPath(opts, target),
                                                          OutgoingPath(opts, req.url),
                                                          params))]
            IN  IF ~Truthy(opts.changeOrigin)
                THEN [out |-> [o2 EXCEPT !.state = "returned"], target |-> target]
                ELSE IF HostHeaderThrows(port, target.protocol, target.host)
                THEN [out |-> [o2 EXCEPT !.state = "thrown"], target |-> target]
                ELSE [out |-> [o2 EXCEPT !.state = "returned",
                                         !.headers.host = HostHeader(port, target.protocol, target.host)],
                      target |-> target]

\* One call of setupOutgoing for request r, with a fresh base object. The
\* function is synchronous: a call runs to its end before another starts.
SetupOutgoing(r) ==
    /\ outgoing[r].state = "pending"
    /\ LET res == setupOutgoing(outgoing[r], options, reqs[r])
       IN  /\ outgoing' = [outgoing EXCEPT ![r] = res.out]
           /\ options' = IF ForwardKey(reqs[r].forward) = "forward"
                         THEN [options EXCEPT !.forward = res.target]
                         ELSE [options EXCEPT !.target = res.target]
    /\ UNCHANGED <<reqs, cookie>>

----------------------------------------------------------------------------
(* rewriteCookieProperty.                                                  *)

kStar == <<"*">>
kConstructor == <<"c", "o", "n", "s", "t", "r", "u", "c", "t", "o", "r">>

\* A rewrite map is a function from its own keys (strings) to values. It is
\* an ordinary object, so it also inherits the properties of
\* Object.prototype, of which the model names one.
ObjectPrototypeKeys == {kConstructor}

\* Object.prototype.constructor, the function Object.
ObjectFunction == [t |-> "function", name |-> "Object"]

\* key in config
In(key, config) == key \in DOMAIN config \/ key \in ObjectPrototypeKeys

\* config[key]
Get(config, key) ==
    IF key \in DOMAIN config THEN config[key]
    ELSE IF key \in ObjectPrototypeKeys THEN ObjectFunction
    ELSE Undef

\* Whether new RegExp("(;\\s*" + property + "=)([^;]+)", 'i') matches s with
\* its ';' at position i.
CookieMatchAt(s, property, i) ==
    /\ i \in 1..Len(s)
    /\ s[i] = ";"
    /\ \E w \in (i + 1)..(Len(s) + 1) :
          /\ AllSpace(s, i + 1, w - 1)
          /\ OccursAt(LowerStr(property) \o <<"=">>, LowerStr(s), w)
          /\ w + Len(property) + 1 <= Len(s)
          /\ s[w + Len(property) + 1] # ";"

\* Where the property name of the match at i starts (after ';' and \s*).
CookieNameStart(s, property, i) ==
    CHOOSE w \in (i + 1)..(Len(s) + 1) :
        /\ AllSpace(s, i + 1, w - 1)
        /\ OccursAt(LowerStr(property) \o <<"=">>, LowerStr(s), w)

\* The end of ([^;]+), which is greedy: the position of the next ';', or
\* one past the end of s.
RECURSIVE ValueEnd(_, _)
ValueEnd(s, from) == IF from > Len(s) \/ s[from] = ";" THEN from ELSE ValueEnd(s, from + 1)

\* The replacer function of lines 200-217.
CookieReplacement(match, prefix, previousValue, config) ==
    IF In(previousValue, config)
    THEN (IF Truthy(Get(config, previousValue))
          THEN prefix \o JsString(Get(config, previousValue))
          ELSE <<>>)
    ELSE IF In(kStar, config)
    THEN (IF Truthy(Get(config, kStar))
          THEN prefix \o JsString(Get(config, kStar))
          ELSE <<>>)
    ELSE match

\* header.replace(regex, replacer) on one header string: the leftmost match.
RewriteOne(s, config, property) ==
    IF \E i \in 1..Len(s) : CookieMatchAt(s, property, i)
    THEN LET i == CHOOSE k \in 1..Len(s) :
                      CookieMatchAt(s, property, k)
                      /\ \A j \in 1..(k - 1) : ~CookieMatchAt(s, property, j)
             w == CookieNameStart(s, property, i)
             v == w + Len(property) + 1
             e == ValueEnd(s, v)
         IN  SubSeq(s, 1, i - 1)
             \o CookieReplacement(SubSeq(s, i, e - 1), SubSeq(s, i, v - 1),
                                  SubSeq(s, v, e - 1), config)
             \o SubSeq(s, e, Len(s))
    ELSE s

\* A header is one string, or an array of strings (mapped element-wise).
rewriteCookieProperty(header, config, property) ==
    IF header.t = "array"
    THEN [t |-> "array",
          items |-> [i \in 1..Len(header.items) |-> RewriteOne(header.items[i], config, property)]]
    ELSE Str(RewriteOne(header.s, config, property))

\* One call of rewriteCookieProperty on the upstream's Set-Cookie header.
RewriteCookie ==
    /\ cookie.output = Undef
    /\ cookie' = [cookie EXCEPT !.output = rewriteCookieProperty(cookie.header, cookie.config, cookie.property)]
    /\ UNCHANGED <<options, reqs, outgoing>>

----------------------------------------------------------------------------
(* Inputs.                                                                 *)

kGet == <<"G", "E", "T">>
kSlash == <<"/">>

Options(target, forward, prependPath, ignorePath, toProxy, changeOrigin, headers, agent) ==
    [target |-> target, forward |-> forward, prependPath |-> prependPath,
     ignorePath |-> ignorePath, toProxy |-> toProxy, changeOrigin |-> changeOrigin,
     headers |-> headers, agent |-> agent, method |-> Undef, secure |-> Undef]

\* An inbound request, with the `forward` argument of its call.
Request(url, headers, forward) ==
    [url |-> url, headers |-> headers, method |-> Str(kGet), forward |-> forward]

\* The target new URL('http://h') gives.
PlainTarget == Target(Str(kHttp \o <<":">>), Str(<<"h">>), Str(<<>>), Str(kSlash), Undef, Params(<<>>))

PlainHeaders == Headers(Str(<<"c">>), Undef)

NoCookie == [header |-> Str(<<>>), config |-> <<>>, property |-> <<>>, output |-> Str(<<>>)]

Flag == {Undef, Bool(TRUE)}

\* Every request is set up once, in any order.
Next == \E r \in DOMAIN reqs : SetupOutgoing(r)

\* --- Host header and port (lines 44-46, 124-126).

Protocols ==
    {Str(kHttp \o <<":">>), Str(kHttps \o <<":">>), Str(kWs \o <<":">>), Str(kWss \o <<":">>),
     Str(<<"H", "T", "T", "P", "S", ":">>), Str(<<"W", "s", "s", ":">>),
     Str(<<"x", "w", "s", "s", ":">>), Str(kHttp), Undef}

Hosts == {Str(<<"h">>), Str(<<"h", ":", "8", "1">>), Undef}

Ports ==
    {Undef, Str(<<>>), Num(0), Str(<<"8", "0">>), Num(80), Str(<<"4", "4", "3">>), Num(443),
     Str(<<"8", "1">>), Num(8080)}

InitHost ==
    /\ \E protocol \in Protocols, host \in Hosts, port \in Ports, changeOrigin \in Flag,
          optHost \in {Undef, Str(<<"o">>)}, optHeaders \in BOOLEAN :
          options = Options(Target(protocol, host, port, Str(kSlash), Undef, Params(<<>>)),
                            Undef, Undef, Undef, Undef, changeOrigin,
                            IF optHeaders THEN Headers(optHost, Undef) ELSE Undef,
                            Undef)
    /\ reqs = [r \in 1..1 |-> Request(kSlash, PlainHeaders, Undef)]
    /\ outgoing = [r \in 1..1 |-> EmptyOutgoing]
    /\ cookie = NoCookie

SpecHost == InitHost /\ [][Next]_vars

\* The target the call of request r reads, as configured.
TargetOf(r) == SelectTarget(options, reqs[r].forward)

Returned(r) == outgoing[r].state = "returned"

\* The scheme of a protocol such as "https:", and the default port a
\* standard table gives it (0: the table has none).
SchemeOf(protocol) == Before(protocol.s, ":")

SchemeDefaultPort(scheme) ==
    CASE scheme \in {kHttp, kWs} -> 80
      [] scheme \in {kHttps, kWss} -> 443
      [] OTHER -> 0

HasColon(s) == \E i \in 1..Len(s) : s[i] = ":"

\* C1: with changeOrigin set, the outgoing host header is the target's host,
\* followed by ':' and the outgoing port exactly when that port is not the
\* default port of the target's scheme and the host holds no ':'; without
\* changeOrigin the host header is the one merged from the request and
\* options.headers.
C1_HostHeader ==
    \A r \in DOMAIN reqs :
        LET target == TargetOf(r)
            out == outgoing[r]
        IN  (out.state # "pending" /\ target.host.t = "string" /\ target.protocol.t = "string") =>
                /\ Returned(r)
                /\ Truthy(options.changeOrigin) =>
                       out.headers.host =
                           IF ToNumber(out.port) # SchemeDefaultPort(SchemeOf(target.protocol))
                              /\ ~HasColon(target.host.s)
                           THEN Str(target.host.s \o <<":">> \o JsString(out.port))
                           ELSE target.host
                /\ ~Truthy(options.changeOrigin) =>
                       out.headers.host = MergeHeaders(reqs[r].headers, options.headers).host

\* A call with changeOrigin that appended the port, and one that did not.
C1_Witness ==
    \E r \in DOMAIN reqs :
        /\ Returned(r)
        /\ Truthy(options.changeOrigin)
        /\ TargetOf(r).protocol = Str(kHttp \o <<":">>)
        /\ outgoing[r].port = Num(8080)
        /\ outgoing[r].headers.host = Str(<<"h", ":", "8", "0", "8", "0">>)

\* C5 as amended: the descriptor's port is the target's port when that is
\* truthy; otherwise it is 443 when the target's protocol, compared case-
\* sensitively, begins with "https" or contains "wss", and 80 when not.
C5_PortCaseSensitive ==
    \A r \in DOMAIN reqs :
        LET target == TargetOf(r)
            p == JsString(target.protocol)
        IN  outgoing[r].state # "pending" =>
                outgoing[r].port =
                    IF Truthy(target.port) THEN target.port
                    ELSE IF (Len(p) >= Len(kHttps) /\ SubSeq(p, 1, Len(kHttps)) = kHttps)
                            \/ (\E i \in 1..Len(p) : OccursAt(kWss, p, i))
                    THEN Num(kHttpsPort)
                    ELSE Num(kHttpPort)

\* An upper-case scheme without a port, set up with port 80.
C5_Witness ==
    \E r \in DOMAIN reqs :
        /\ Returned(r)
        /\ TargetOf(r).protocol = Str(<<"H", "T", "T", "P", "S", ":">>)
        /\ ~Truthy(TargetOf(r).port)
        /\ outgoing[r].port = Num(kHttpPort)

\* C5 as claimed: a target without a port gets 443 exactly when its scheme
\* begins with "https" or "wss" in any letter case, and 80 otherwise; a
\* target with a port keeps it.
C5_PortIgnoringCase ==
    \A r \in DOMAIN reqs :
        LET target == TargetOf(r)
            p == LowerStr(JsString(target.protocol))
        IN  outgoing[r].state # "pending" =>
                outgoing[r].port =
                    IF Truthy(target.port) THEN target.port
                    ELSE IF IsPrefix(kHttps, p) \/ IsPrefix(kWss, p)
                    THEN Num(kHttpsPort)
                    ELSE Num(kHttpPort)

\* --- Path composition (lines 97-122).

UrlChars == {"/", "a", "?"}

\* Every string over UrlChars of at most MaxUrlLen characters, and two
\* absolute URLs as a proxy-style request sends them.
Urls ==
    UNION {[1..n -> UrlChars] : n \in 0..MaxUrlLen}
    \cup {kHttpColon \o <<"/", "/", "h", "/", "a">>,
          kHttpColon \o <<"/", "/", "h", "/", "/", "a", "?", "a", "=", "/", "/">>}

\* The '?' of a URL and what follows it.
QueryPart(url) == IF IndexOf(url, <<"?">>) = 0 THEN <<>> ELSE Drop(url, IndexOf(url, <<"?">>) - 1)

\* The target's pathname and legacy path.
Pathnames ==
    {<<Undef, Undef>>, <<Str(<<>>), Undef>>, <<Str(kSlash), Undef>>, <<Str(<<"/", "a">>), Undef>>,
     <<Str(<<"/", "a", "/", "/">>), Undef>>, <<Undef, Str(<<"/", "a", "/">>)>>}

\* Request 1 is any URL; request 2 is the same request with another path.
InitPath ==
    /\ \E pn \in Pathnames, sp \in {Undef, Params(<<<<<<"a">>, <<"a">>>>>>)},
          prependPath \in {Undef, Bool(FALSE)}, ignorePath \in Flag, toProxy \in Flag :
          options = Options(Target(Str(kHttp \o <<":">>), Str(<<"h">>), Undef, pn[1], pn[2], sp),
                            Undef, prependPath, ignorePath, toProxy, Undef, Undef, Undef)
    /\ \E url \in Urls, other \in {kSlash, <<"/", "a", "/">>} :
          reqs = [r \in 1..2 |-> Request(IF r = 1 THEN url ELSE other \o QueryPart(url),
                                         PlainHeaders, Undef)]
    /\ outgoing = [r \in 1..2 |-> EmptyOutgoing]
    /\ cookie = NoCookie

SpecPath == InitPath /\ [][Next]_vars

NoDoubleSlash(s) == \A i \in 1..(Len(s) - 1) : ~(s[i] = "/" /\ s[i + 1] = "/")

IsSuffix(x, s) == Len(x) <= Len(s) /\ SubSeq(s, Len(s) - Len(x) + 1, Len(s)) = x

\* The query string the call of request r appends: reqUrl.search after the
\* target's query parameters were set on it.
ParamsOf(r) ==
    MergedSearch(UrlQuery(reqs[r].url), ResolveTarget(TargetOf(r)).searchParams.list)

\* The pathname of the target once resolved ('' when it has none).
PathnameOf(r) == JsString(OrElse(ResolveTarget(TargetOf(r)).pathname, Str(<<>>)))

\* What the request contributes to the path before the join.
ContributionOf(r) ==
    IF Truthy(options.ignorePath) THEN <<>>
    ELSE IF Truthy(options.toProxy) THEN reqs[r].url
    ELSE UrlPathname(reqs[r].url)

\* C2 as amended: the descriptor's path ends with the appended query string,
\* and the part before it never holds two consecutive '/'.
C2_NoDoubleSlashBeforeQuery ==
    \A r \in DOMAIN reqs :
        Returned(r) =>
            LET path == outgoing[r].path.s
            IN  /\ IsSuffix(ParamsOf(r), path)
                /\ NoDoubleSlash(SubSeq(path, 1, Len(path) - Len(ParamsOf(r))))

\* A returned call whose joined path held "//" before the collapse.
C2_Witness ==
    \E r \in DOMAIN reqs :
        /\ Returned(r)
        /\ ~NoDoubleSlash(FilterJoin(PathnameOf(r), ContributionOf(r)))
        /\ options.prependPath = Undef
        /\ NoDoubleSlash(outgoing[r].path.s)

\* C2 as claimed: the descriptor's path never holds two consecutive '/'.
C2_NoDoubleSlashAnywhere == \A r \in DOMAIN reqs : Returned(r) => NoDoubleSlash(outgoing[r].path.s)

\* C7 as amended: with ignorePath set, the path is the target's pathname
\* with its runs of '/' collapsed (nothing when prependPath is false),
\* followed by the merged query string; requests that differ only in their
\* path get the same path.
C7_IgnorePath ==
    Truthy(options.ignorePath) =>
        /\ \A r \in DOMAIN reqs :
              Returned(r) =>
                  outgoing[r].path.s =
                      CollapseSlashes(IF options.prependPath = Bool(FALSE) THEN <<>> ELSE PathnameOf(r))
                      \o ParamsOf(r)
        /\ \A r1, r2 \in DOMAIN reqs :
              (Returned(r1) /\ Returned(r2) /\ UrlQuery(reqs[r1].url) = UrlQuery(reqs[r2].url)) =>
                  outgoing[r1].path = outgoing[r2].path

\* Two requests with different paths, both set up under ignorePath.
C7_Witness ==
    /\ Truthy(options.ignorePath)
    /\ \E r1, r2 \in DOMAIN reqs :
          /\ Returned(r1) /\ Returned(r2)
          /\ UrlPathname(reqs[r1].url) # UrlPathname(reqs[r2].url)
          /\ PathnameOf(r1) = <<"/", "a">>
          /\ outgoing[r1].path = outgoing[r2].path

\* C7 as claimed: with ignorePath set, the path is the target's pathname
\* followed by the merged query string.
C7_IgnorePathPathname ==
    Truthy(options.ignorePath) =>
        \A r \in DOMAIN reqs :
            Returned(r) => outgoing[r].path.s = PathnameOf(r) \o ParamsOf(r)

\* C8 as amended: with prependPath false the target's pathname takes no
\* part in the path, which is the request's contribution with its runs of
\* '/' collapsed, followed by the merged query string.
C8_NoPrepend ==
    options.prependPath = Bool(FALSE) =>
        \A r \in DOMAIN reqs :
            Returned(r) => outgoing[r].path.s = CollapseSlashes(ContributionOf(r)) \o ParamsOf(r)

\* A call under prependPath false whose target has a pathname.
C8_Witness ==
    /\ options.prependPath = Bool(FALSE)
    /\ \E r \in DOMAIN reqs :
          /\ Returned(r)
          /\ PathnameOf(r) = <<"/", "a">>
          /\ outgoing[r].path.s = <<"/", "a", "/", "a">>

\* C8 as claimed: with prependPath false and a target pathname that is not
\* empty, the path never starts with the target's pathname.
C8_NeverPrefix ==
    options.prependPath = Bool(FALSE) =>
        \A r \in DOMAIN reqs :
            (Returned(r) /\ PathnameOf(r) # <<>>) => ~IsPrefix(PathnameOf(r), outgoing[r].path.s)

\* --- Query merge (lines 105-111).

SeqsUpTo(S, n) == UNION {[1..k -> S] : k \in 0..n}

RECURSIVE RawQuery(_)
RawQuery(list) ==
    IF list = <<>> THEN <<>>
    ELSE list[1][1] \o <<"=">> \o list[1][2]
         \o (IF Len(list) = 1 THEN <<>> ELSE <<"&">> \o RawQuery(Drop(list, 1)))

\* The request's query as the client wrote it: pairs joined by '&', a name
\* without '=', a lone '&', an empty query, or no query at all.
ReqQueries ==
    {<<"?">> \o RawQuery(l) : l \in SeqsUpTo({<<"a">>, <<"b">>} \X {<<"1">>, <<"/">>}, MaxPairs)}
    \cup {<<>>, <<"?", "a">>, <<"?", "&">>}

TargetParams ==
    {Params(l) : l \in SeqsUpTo({<<"a">>, <<"c">>} \X {<<"9">>, <<"&">>}, MaxPairs)} \cup {Undef}

InitQuery ==
    /\ \E sp \in TargetParams :
          options = Options(Target(Str(kHttp \o <<":">>), Str(<<"h">>), Undef, Str(kSlash), Undef, sp),
                            Undef, Undef, Undef, Undef, Undef, Undef, Undef)
    /\ \E q \in ReqQueries : reqs = [r \in 1..1 |-> Request(<<"/", "p">> \o q, PlainHeaders, Undef)]
    /\ outgoing = [r \in 1..1 |-> EmptyOutgoing]
    /\ cookie = NoCookie

SpecQuery == InitQuery /\ [][Next]_vars

Keys(list) == {list[i][1] : i \in 1..Len(list)}

FirstOfKey(list, i) == \A j \in 1..(i - 1) : list[j][1] # list[i][1]

\* The value of the last pair of list named k.
LastValue(list, k) ==
    list[CHOOSE i \in 1..Len(list) : list[i][1] = k /\ \A j \in (i + 1)..Len(list) : list[j][1] # k][2]

\* The pairs of list at the indices from i on that are in S, in order.
RECURSIVE Pick(_, _, _)
Pick(list, i, S) ==
    IF i > Len(list) THEN <<>>
    ELSE (IF i \in S THEN <<list[i]>> ELSE <<>>) \o Pick(list, i + 1, S)

\* The request's pairs in the request's order, a key the target sets kept
\* once, where it first stands, with the target's last value; then the
\* keys only the target sets, in the order the target first set them.
MergedInRequestOrder(req, tgt) ==
    LET kept == Pick(req, 1, {i \in 1..Len(req) : req[i][1] \notin Keys(tgt) \/ FirstOfKey(req, i)})
        new == Pick(tgt, 1, {i \in 1..Len(tgt) : tgt[i][1] \notin Keys(req) /\ FirstOfKey(tgt, i)})
        Valued(l) == [i \in 1..Len(l) |->
                          IF l[i][1] \in Keys(tgt) THEN <<l[i][1], LastValue(tgt, l[i][1])>> ELSE l[i]]
    IN  Valued(kept) \o Valued(new)

\* The keys the target sets, in the target's order, then the pairs only
\* the request carries.
MergedTargetFirst(req, tgt) ==
    LET Valued(l) == [i \in 1..Len(l) |-> <<l[i][1], LastValue(tgt, l[i][1])>>]
    IN  Valued(Pick(tgt, 1, {i \in 1..Len(tgt) : FirstOfKey(tgt, i)}))
        \o Pick(req, 1, {i \in 1..Len(req) : req[i][1] \notin Keys(tgt)})

\* The path of request r up to the query string it ends with.
PathBeforeQuery(r) == CollapseSlashes(FilterJoin(PathnameOf(r), ContributionOf(r)))

\* C3 as amended: when the target has no query parameter, the appended
\* query string is the request URL's own search string; otherwise it is '?'
\* and the form-encoded pairs of the request's query in the request's
\* order, each key the target sets standing once, at its first place, with
\* the target's value, followed by the keys only the target sets, in the
\* target's order.
C3_MergeInRequestOrder ==
    \A r \in DOMAIN reqs :
        Returned(r) =>
            LET req == ParseQuery(UrlQuery(reqs[r].url))
                tgt == ResolveTarget(TargetOf(r)).searchParams.list
            IN  outgoing[r].path.s =
                    PathBeforeQuery(r)
                    \o (IF tgt = <<>> THEN Search(UrlQuery(reqs[r].url))
                        ELSE <<"?">> \o SerializePairs(MergedInRequestOrder(req, tgt)))

\* A merge where the target overrides the second key of the request.
C3_Witness ==
    \E r \in DOMAIN reqs :
        /\ Returned(r)
        /\ reqs[r].url = <<"/", "p", "?", "b", "=", "1", "&", "a", "=", "1">>
        /\ outgoing[r].path.s = <<"/", "p", "?", "b", "=", "1", "&", "a", "=", "9", "&", "c", "=", "9">>

\* C3 as claimed, for a target that sets a key: the keys the target sets
\* come first, in the target's order, the keys only the request carries
\* follow; the query string is '?' and the merged pairs when there is a
\* pair, and empty otherwise.
C3_MergeTargetFirst ==
    \A r \in DOMAIN reqs :
        (Returned(r) /\ ResolveTarget(TargetOf(r)).searchParams.list # <<>>) =>
            LET req == ParseQuery(UrlQuery(reqs[r].url))
                tgt == ResolveTarget(TargetOf(r)).searchParams.list
                merged == MergedTargetFirst(req, tgt)
            IN  outgoing[r].path.s =
                    PathBeforeQuery(r)
                    \o (IF merged = <<>> THEN <<>> ELSE <<"?">> \o SerializePairs(merged))

\* --- Connection header (lines 71-83).

Tokens ==
    {kUpgrade, <<"U", "p", "g", "r", "a", "d", "e">>, kKeepAlive, kUpgrade \o <<"x">>,
     <<"x", "U", "P", "G", "R", "A", "D", "E">>}

Padded == Tokens \cup {<<" ">> \o t : t \in Tokens} \cup {t \o <<" ">> : t \in Tokens}

ConnectionValues == {JoinWith(l, <<",">>) : l \in SeqsUpTo(Padded, MaxTokens) \ {<<>>}}

Agents == {Undef, Bool(FALSE), Obj("agent")}

\* The Connection header comes with the request, or from options.headers
\* over the request's keep-alive, or is absent.
InitConn ==
    /\ \E agent \in Agents, c \in {Str(v) : v \in ConnectionValues} \cup {Undef}, fromOptions \in BOOLEAN :
          /\ options = Options(PlainTarget, Undef, Undef, Undef, Undef, Undef,
                               IF fromOptions THEN Headers(Undef, c) ELSE Undef, agent)
          /\ reqs = [r \in 1..1 |->
                        Request(kSlash,
                                Headers(Str(<<"c">>), IF fromOptions THEN Str(kKeepAlive) ELSE c),
                                Undef)]
    /\ outgoing = [r \in 1..1 |-> EmptyOutgoing]
    /\ cookie = NoCookie

SpecConn == InitConn /\ [][Next]_vars

RECURSIVE TrimLeft(_)
TrimLeft(s) == IF s # <<>> /\ IsSpace(s[1]) THEN TrimLeft(Drop(s, 1)) ELSE s

RECURSIVE TrimRight(_)
TrimRight(s) == IF s # <<>> /\ IsSpace(s[Len(s)]) THEN TrimRight(SubSeq(s, 1, Len(s) - 1)) ELSE s

\* Whether one of the comma-separated tokens of s is the word upgrade, in
\* any letter case.
HasUpgradeToken(s) ==
    \E i \in 1..Len(Split(s, ",")) : LowerStr(TrimRight(TrimLeft(Split(s, ",")[i]))) = kUpgrade

\* The Connection header of request r after options.headers went on top.
MergedConnection(r) ==
    IF options.headers # Undef /\ options.headers.connection # Undef
    THEN options.headers.connection
    ELSE reqs[r].headers.connection

\* C4: without an agent the outgoing Connection header stays as merged when
\* it holds the token upgrade, and is "close" otherwise (the header absent
\* included); with an agent it stays as merged.
C4_ConnectionHeader ==
    \A r \in DOMAIN reqs :
        Returned(r) =>
            outgoing[r].headers.connection =
                IF options.agent \in {Undef, Bool(FALSE)}
                   /\ ~(MergedConnection(r) # Undef /\ HasUpgradeToken(MergedConnection(r).s))
                THEN Str(kClose)
                ELSE MergedConnection(r)

\* Without an agent, "keep-alive, Upgrade" was kept.
C4_Witness ==
    \E r \in DOMAIN reqs :
        /\ Returned(r)
        /\ options.agent = Undef
        /\ outgoing[r].headers.connection =
               Str(kKeepAlive \o <<",", " ", "U", "p", "g", "r", "a", "d", "e">>)

\* --- Faults (lines 29-129).

\* Targets with any of their optional fields missing, and no target.
FaultTargets ==
    {Target(protocol, host, port, pathname, Undef, sp) :
        protocol \in {Undef, Str(kHttp \o <<":">>)}, host \in {Undef, Str(<<"h">>)},
        port \in {Undef, Num(8080)}, pathname \in {Undef, Str(<<"/", "a">>)},
        sp \in {Undef, Params(<<>>)}}
    \cup {Undef, Null}

InitFault ==
    /\ \E target \in FaultTargets, changeOrigin \in Flag, agent \in {Undef, Obj("agent")},
          headers \in {Undef, Headers(Undef, Undef)} :
          options = Options(target, Undef, Undef, Undef, Undef, changeOrigin, headers, agent)
    /\ \E url \in {<<>>, kSlash, <<"/", "/">>, <<"/", "/", "?">>, <<"/", "/", "a">>, <<"a">>, <<"?">>} :
          reqs = [r \in 1..1 |-> Request(url, Headers(Undef, Undef), Undef)]
    /\ outgoing = [r \in 1..1 |-> EmptyOutgoing]
    /\ cookie = NoCookie

SpecFault == InitFault /\ [][Next]_vars

\* C9: a call faults only when the request URL does not parse or the
\* selected target is absent: with a target object and a URL that parses,
\* whatever optional fields are missing, it returns a descriptor.
C9_FaultsOnlyOnUrlOrTarget ==
    \A r \in DOMAIN reqs :
        (outgoing[r].state # "pending" /\ TargetOf(r).t = "object" /\ UrlParses(reqs[r].url)) =>
            Returned(r)

\* The faults that remain: with a target whose protocol and host are
\* strings, a call returns whenever the request URL parses.
C9_ReturnsWithProtocolAndHost ==
    \A r \in DOMAIN reqs :
        (outgoing[r].state # "pending" /\ TargetOf(r).t = "object" /\ UrlParses(reqs[r].url)
         /\ TargetOf(r).protocol.t = "string" /\ TargetOf(r).host.t = "string") =>
            Returned(r)

\* --- Calls that share one configuration (lines 31-42, 54-83).

\* The pathname and legacy path of the shared targets: "/b" is a pathname
\* only once a legacy path was moved there.
SharedPathnames ==
    {<<Str(<<"/", "a">>), Undef>>, <<Undef, Str(<<"/", "b">>)>>, <<Str(<<"/", "a">>), Str(<<"/", "b">>)>>}

InitShared ==
    /\ \E pn \in SharedPathnames, sp \in {Undef, Params(<<<<<<"a">>, <<"9">>>>>>)},
          fwd \in {Undef, Target(Str(kHttps \o <<":">>), Str(<<"f">>), Undef, Undef, Str(<<"/", "b">>), Undef)},
          headers \in {Undef, Headers(Str(<<"o">>), Str(kKeepAlive))}, changeOrigin \in Flag :
          options = Options(Target(Str(kHttp \o <<":">>), Str(<<"h">>), Num(8080), pn[1], pn[2], sp),
                            fwd, Undef, Undef, Undef, changeOrigin, headers, Undef)
    /\ reqs \in [ReqIds -> {Request(url, PlainHeaders, forward) :
                                url \in {<<"/", "x">>, <<"/", "y", "?", "a", "=", "1">>},
                                forward \in {Undef, Str(<<"f", "o", "r", "w", "a", "r", "d">>)}}]
    /\ outgoing = [r \in ReqIds |-> EmptyOutgoing]
    /\ cookie = NoCookie

SpecShared == InitShared /\ [][Next]_vars

\* A target as a call may leave it: with a searchParams if it had none, and
\* with its legacy path, if any, moved to its pathname.
Resolved(target) ==
    IF target.t # "object" THEN target
    ELSE [target EXCEPT
            !.searchParams = IF Truthy(target.searchParams) THEN target.searchParams ELSE Params(<<>>),
            !.pathname = IF Truthy(target.path) THEN target.path ELSE target.pathname,
            !.path = IF Truthy(target.path) THEN Undef ELSE target.path]

\* A call leaves the requests and every option but the targets as they
\* were, and a target either as it was or resolved.
CallFrame ==
    /\ reqs' = reqs
    /\ options'.target \in {options.target, Resolved(options.target)}
    /\ options'.forward \in {options.forward, Resolved(options.forward)}
    /\ options' = [options EXCEPT !.target = options'.target, !.forward = options'.forward]
    /\ \E r \in DOMAIN reqs :
          /\ outgoing[r].state = "pending"
          /\ \A q \in DOMAIN reqs \ {r} : outgoing'[q] = outgoing[q]

\* Every descriptor already computed is the one a fresh call for its
\* request would compute now, whichever other calls ran meanwhile.
OrderIndependent ==
    \A r \in DOMAIN reqs :
        outgoing[r].state # "pending" =>
            outgoing[r] = setupOutgoing(EmptyOutgoing, options, reqs[r]).out

\* C10 as amended: a call writes its own descriptor and leaves the requests
\* and the options alone, except that it resolves the target it selects in
\* place (an empty searchParams where there was none, a legacy path moved
\* to pathname); the descriptor of a request does not depend on the calls
\* that ran before it.
C10_FrameUpToResolution == [][CallFrame]_vars /\ []OrderIndependent

\* Every call has run and the shared target's legacy path was moved.
C10_Witness ==
    /\ \A r \in DOMAIN reqs : Returned(r)
    /\ \E r \in DOMAIN reqs : reqs[r].forward = Undef
    /\ options.target.pathname = Str(<<"/", "b">>)
    /\ options.target.path = Undef
    /\ \E r1, r2 \in DOMAIN reqs : r1 # r2 /\ reqs[r1].url # reqs[r2].url

\* C10 as claimed: the requests, the configuration and the target are
\* unchanged by every call.
C10_NothingShared == [][reqs' = reqs /\ options' = options]_vars

\* --- Cookie rewriting (lines 193-218).

kDomain == <<"d", "o", "m", "a", "i", "n">>

AttrNames == {<<"D", "o", "m", "a", "i", "n">>, kDomain, <<"P", "a", "t", "h">>}

AttrValues == {<<"a">>, <<"b">>, <<>>, kConstructor}

\* One attribute clause: ';', perhaps a space, the name, '=', the value.
Attrs == {<<";">> \o sp \o n \o <<"=">> \o v : sp \in {<<>>, <<" ">>}, n \in AttrNames, v \in AttrValues}

RECURSIVE Concat(_)
Concat(parts) == IF parts = <<>> THEN <<>> ELSE parts[1] \o Concat(Drop(parts, 1))

\* Set-Cookie headers: a name=value pair and at most MaxAttrs attributes.
CookieHeaders == {<<"s", "=", "1">> \o Concat(l) : l \in SeqsUpTo(Attrs, MaxAttrs)}

\* Rewrite maps over the keys "a" and "*": a new value, null or ''.
CookieConfigs ==
    UNION {[K -> {Str(<<"x">>), Null, Str(<<>>)}] : K \in SUBSET {<<"a">>, kStar}}

\* The headers an array of Set-Cookie headers is drawn from.
ArrayHeaders ==
    {<<"s", "=", "1">>,
     <<"s", "=", "1", ";", " ">> \o kDomain \o <<"=", "a">>,
     <<"s", "=", "1", ";">> \o kDomain \o <<"=", "b", ";", " ", "P", "a", "t", "h", "=", "a">>}

InitCookie ==
    /\ options = Options(PlainTarget, Undef, Undef, Undef, Undef, Undef, Undef, Undef)
    /\ reqs = <<>>
    /\ outgoing = <<>>
    /\ \E config \in CookieConfigs :
          \E header \in {Str(h) : h \in CookieHeaders}
                        \cup {[t |-> "array", items |-> l] : l \in SeqsUpTo(ArrayHeaders, 2)} :
              cookie = [header |-> header, config |-> config, property |-> kDomain, output |-> Undef]

NextCookie == RewriteCookie

SpecCookie == InitCookie /\ [][NextCookie]_vars

\* The clauses of a header: the name=value pair, then one per ';'.
Clauses(header) == Split(header, ";")

\* Whether a clause is `<property>=<value>` with a value, in any letter case
\* of the property and after any white space.
IsProperty(clause, property) ==
    /\ IsPrefix(LowerStr(property) \o <<"=">>, LowerStr(TrimLeft(clause)))
    /\ Len(TrimLeft(clause)) > Len(property) + 1

\* The clause with its value replaced, or nothing for a clause to delete;
\* only the keys of the map itself count.
RewrittenClause(clause, config) ==
    LET value == After(clause, "=")
        chosen == IF value \in DOMAIN config THEN <<config[value]>>
                  ELSE IF kStar \in DOMAIN config THEN <<config[kStar]>>
                  ELSE <<>>
    IN  IF chosen = <<>> THEN <<clause>>
        ELSE IF Truthy(chosen[1]) THEN <<Before(clause, "=") \o <<"=">> \o JsString(chosen[1])>>
        ELSE <<>>

\* The header with its first property clause rewritten.
ExpectedRewrite(header, config, property) ==
    LET cl == Clauses(header)
        hits == {i \in 2..Len(cl) : IsProperty(cl[i], property)}
    IN  IF hits = {} THEN header
        ELSE LET first == CHOOSE i \in hits : \A j \in hits : i <= j
             IN  JoinWith(SubSeq(cl, 1, first - 1) \o RewrittenClause(cl[first], config)
                          \o SubSeq(cl, first + 1, Len(cl)), <<";">>)

\* C6: the first `; <property>=<value>` clause of a header gets the value
\* the rewrite map gives for <value>, else the one it gives for '*', and is
\* left as it is when the map has neither; a falsy replacement deletes the
\* clause; the rest of the header is unchanged, and an array of headers is
\* rewritten element by element.
C6_CookieRewrite ==
    cookie.output # Undef =>
        IF cookie.header.t = "array"
        THEN /\ cookie.output.t = "array"
             /\ Len(cookie.output.items) = Len(cookie.header.items)
             /\ \A i \in 1..Len(cookie.header.items) :
                   cookie.output.items[i] =
                       ExpectedRewrite(cookie.header.items[i], cookie.config, cookie.property)
        ELSE cookie.output = Str(ExpectedRewrite(cookie.header.s, cookie.config, cookie.property))

\* Apart from the values that name an inherited property, the rewrite is
\* the one C6 states.
C6_RewriteOfOwnValues ==
    (cookie.header.t = "array"
     \/ \A i \in 1..Len(cookie.header.s) : ~OccursAt(kConstructor, cookie.header.s, i)) =>
        C6_CookieRewrite

============================================================================
